---- MODULE Spec2Model ----
(***************************************************************************)
(* Boot orchestration of the vJunos-router VM (vjunosrouter/docker/        *)
(* launch.py): the console polling tick VJUNOSROUTER_vm.bootstrap_spin,    *)
(* its spin counter, the first-login sequence and the restart on timeout.  *)
(* The base class vrnetlab.VM (start, stop, wait_write, the work loop) is  *)
(* modelled from the design document.                                      *)
(***************************************************************************)
EXTENDS Integers, Sequences, FiniteSets, TLC

\* ------------------------------------------------------------------ bounds
MaxRes == 2          \* longest console read, in chunks
MaxClock == 1        \* last instant of the wall clock
MaxCfg == 2          \* longest baseline template, in tokens
MaxRuns == 2         \* launches of the container on the same filesystem

\* --------------------------------------------------------------- constants
spinLimit == 300                 \* launch.py:121
Marker == "FreeBSD/amd64"        \* launch.py:129
Noise == "boot log"              \* any console chunk that is not the marker
CR == "\r"                       \* launch.py:135, 138
Username == "admin"              \* launch.py:136
LoginPrompt == "login:"          \* launch.py:136
PasswordPrompt == "Password:"    \* launch.py:137
None == "None"
Passwords == {"VR-netlab9", "s3cret"}   \* --password, launch.py:179

Chunks == {Marker, Noise}
\* what the console may have buffered when a tick reads it
Reads == UNION {[1..n -> Chunks] : n \in 0..MaxRes}
\* the prompts the console shows while the login sequence waits
PromptSets == SUBSET {LoginPrompt, PasswordPrompt}

VARIABLES
  spins,        \* self.spins
  running,      \* self.running
  start_time,   \* self.start_time
  tnOpen,       \* self.tn is an open console connection
  vmUp,         \* the VM process is running
  password,     \* self.password
  now,          \* datetime.datetime.now()
  startup_time, \* elapsed time logged at completion, -1 before
  \* ---- observation of the last tick and of the session (history)
  lastKind,     \* which path the last tick took
  lastRes,      \* res returned by the console read of the last tick
  pre,          \* fields at the start of the last tick
  calls,        \* calls on the VM process made by the last tick
  tickWrites,   \* console writes made by the last tick
  phases,       \* monitor states the last tick went through
  closes,       \* times the session's console handle was closed
  flips,        \* times running went false -> true in the session
  markerSeen,   \* the marker matched in some tick of the session
  idleTicks,    \* ticks of the session so far if all read nothing, else -1
  noisy,        \* every console read so far was non-empty without the marker
  lastPrompts,  \* the prompts the console showed to the last tick's login
  raised,       \* the exception that ended the last tick, or None
  discarded,    \* the session the last tick threw away, if it restarted
  emptySince,   \* empty reads since the session began or spins was last reset
  unbroken,     \* those empty reads are the ticks right before now, one run
  noiseReset,   \* spins was reset by a read with output in this session
  \* ---- the tick taken statement by statement
  pc,           \* the statement of bootstrap_spin to run next, or "idle"
  console,      \* what the console has to offer to the running tick
  shown,        \* the prompts the console shows to the running tick
  \* ---- the config bootstrapper and the files it works on
  hostname,     \* --hostname
  init_conf,    \* the file init.conf
  juniper_conf, \* the file juniper.conf
  startup_cfg,  \* the file /config/startup-config.cfg
  config_img,   \* the file config.img, as the text it was built from
  status,       \* how the last launch ended: "ok" or the exception raised
  runs,         \* launches so far
  template,     \* init.conf as shipped (history)
  prevStatus,   \* status before the last launch (history)
  prevArtifact, \* juniper.conf before the last launch (history)
  lastCat,      \* outcome of the cat command in the last launch (history)
  built         \* make-config.sh built an image in the last launch (history)

vars == <<spins, running, start_time, tnOpen, vmUp, password, now,
          startup_time, lastKind, lastRes, pre, calls, tickWrites, phases,
          closes, flips, markerSeen, idleTicks, noisy, lastPrompts,
          raised, discarded, emptySince, unbroken, noiseReset,
          pc, console, shown, hostname, init_conf, juniper_conf,
          startup_cfg, config_img, status, runs, template, prevStatus,
          prevArtifact, lastCat, built>>

stepVars == <<pc, console, shown>>

cfgVars == <<hostname, init_conf, juniper_conf, startup_cfg, config_img,
             status, runs, template, prevStatus, prevArtifact, lastCat, built>>

\* the object's fields as one value, for the operators below
Self == [spins |-> spins, running |-> running, start_time |-> start_time,
         tnOpen |-> tnOpen, vmUp |-> vmUp, closes |-> closes, calls |-> <<>>]

\* ------------------------------------------------- vrnetlab.VM (base class)
\* stop(): end the VM process and tear the session down
stop(s) ==
  [s EXCEPT !.running = FALSE, !.vmUp = FALSE, !.tnOpen = FALSE,
            !.closes = @ + (IF s.tnOpen THEN 1 ELSE 0),
            !.calls = Append(@, "stop")]

\* start(): launch the VM process; a fresh BootSession
start(s, t) ==
  [s EXCEPT !.spins = 0, !.start_time = t, !.running = FALSE,
            !.vmUp = TRUE, !.tnOpen = TRUE, !.closes = 0,
            !.calls = Append(@, "start")]

\* wait_write(cmd, wait): wait for the prompt (if any), then write cmd;
\* a prompt that does not show up is a LoginError
wait_write(w, cmd, wait, prompts) ==
  IF wait # None /\ wait \notin prompts
    THEN [ok |-> FALSE, out |-> w]
    ELSE [ok |-> TRUE, out |-> Append(w, cmd)]

\* ----------------------------------------------------------- bootstrap_spin
\* the guard allows one spin more
TimedOut_late(s) == s > spinLimit + 1

\* the limit itself already counts as too many
TimedOut_atLimit(s) == s >= spinLimit

\* line 121
TimedOut(s) == s > spinLimit

\* self.tn.expect([b"FreeBSD/amd64"], 1): the text up to and including the
\* first marker when there is one, else all that was read
FirstMarker(buf) ==
  CHOOSE i \in DOMAIN buf : buf[i] = Marker /\ \A j \in 1..(i-1) : buf[j] # Marker

\* any output counts as a match
expect_anyOutput(buf) ==
  [ridx |-> IF buf # <<>> THEN 0 ELSE -1, match |-> buf # <<>>, res |-> buf]

expect(buf) ==
  IF \E i \in DOMAIN buf : buf[i] = Marker
    THEN [ridx |-> 0, match |-> TRUE, res |-> SubSeq(buf, 1, FirstMarker(buf))]
    ELSE [ridx |-> -1, match |-> FALSE, res |-> buf]

\* the username is written without waiting for its prompt
Login_ungated(pw, prompts) ==
  LET w1 == wait_write(<<>>, CR, None, prompts)
      w2 == IF w1.ok THEN wait_write(w1.out, Username, None, prompts) ELSE w1
      w3 == IF w2.ok THEN wait_write(w2.out, pw, PasswordPrompt, prompts) ELSE w2
      w4 == IF w3.ok THEN wait_write(w3.out, CR, None, prompts) ELSE w3
  IN  w4

\* a missing prompt stops the writes but is not reported
Login_swallowError(pw, prompts) ==
  LET w1 == wait_write(<<>>, CR, None, prompts)
      w2 == IF w1.ok THEN wait_write(w1.out, Username, LoginPrompt, prompts) ELSE w1
      w3 == IF w2.ok THEN wait_write(w2.out, pw, PasswordPrompt, prompts) ELSE w2
      w4 == IF w3.ok THEN wait_write(w3.out, CR, None, prompts) ELSE w3
  IN  [ok |-> TRUE, out |-> w4.out]

\* lines 135-138: the four writes, cut short by the first LoginError
Login(pw, prompts) ==
  LET w1 == wait_write(<<>>, CR, None, prompts)
      w2 == IF w1.ok THEN wait_write(w1.out, Username, LoginPrompt, prompts) ELSE w1
      w3 == IF w2.ok THEN wait_write(w2.out, pw, PasswordPrompt, prompts) ELSE w2
      w4 == IF w3.ok THEN wait_write(w3.out, CR, None, prompts) ELSE w3
  IN  w4

\* output does not reset the counter
SpinsAfterNoMatch_noReset(s, res) == s + 1

\* the reset is taken on the empty read instead
SpinsAfterNoMatch_resetOnEmpty(s, res) ==
  LET r == IF res = <<>> THEN 0 ELSE s
  IN  r + 1

\* lines 152-157
SpinsAfterNoMatch(s, res) ==
  LET r == IF res # <<>> THEN 0 ELSE s
  IN  r + 1

\* the VM is started before the old one is stopped
Restart_startFirst(s, t) == stop(start(s, t))

\* lines 122-125
Restart(s, t) == start(stop(s), t)

\* the console is left open
Complete_noClose(s) == [s EXCEPT !.running = TRUE]

\* lines 142-147
Complete(s) ==
  [s EXCEPT !.tnOpen = FALSE, !.closes = @ + 1, !.running = TRUE]

Pre == [spins |-> spins, running |-> running, start_time |-> start_time,
        now |-> now]

\* no session has been discarded by the last tick
NoSession == [idleTicks |-> -1, markerSeen |-> FALSE, emptySince |-> -1,
              unbroken |-> FALSE, noiseReset |-> FALSE]

\* lines 121-125: too many spins, give up and restart the VM
TimeoutBranch ==
  /\ TimedOut(spins)
  /\ LET r == Restart(Self, now) IN
       /\ spins' = r.spins
       /\ running' = r.running
       /\ start_time' = r.start_time
       /\ tnOpen' = r.tnOpen
       /\ vmUp' = r.vmUp
       /\ closes' = r.closes
       /\ calls' = r.calls
  /\ lastKind' = "timeout"
  /\ lastRes' = <<>>
  /\ pre' = Pre
  /\ tickWrites' = <<>>
  /\ phases' = <<"AWAITING_SIGNAL", "TIMED_OUT">>
  /\ flips' = 0
  /\ markerSeen' = FALSE
  /\ idleTicks' = 0
  /\ startup_time' = -1
  /\ lastPrompts' = {}
  /\ raised' = None
  /\ discarded' = [idleTicks |-> idleTicks, markerSeen |-> markerSeen,
                    emptySince |-> emptySince, unbroken |-> unbroken,
                    noiseReset |-> noiseReset]
  /\ emptySince' = 0
  /\ unbroken' = TRUE
  /\ noiseReset' = FALSE
  /\ UNCHANGED <<password, now, noisy>>

\* lines 129-148: the marker matched, log in
MatchBranch(buf, prompts) ==
  /\ ~TimedOut(spins)
  /\ LET e == expect(buf) IN
     /\ e.match /\ e.ridx = 0
     /\ lastRes' = e.res
     /\ LET l == Login(password, prompts) IN
        /\ tickWrites' = l.out
        /\ IF l.ok
             THEN LET r == Complete(Self) IN
                  /\ tnOpen' = r.tnOpen
                  /\ closes' = r.closes
                  /\ running' = r.running
                  /\ startup_time' = now - start_time
                  /\ flips' = flips + (IF running THEN 0 ELSE 1)
                  /\ lastKind' = "login_ok"
                  /\ raised' = None
                  /\ phases' = <<"AWAITING_SIGNAL", "LOGGING_IN", "DONE">>
             ELSE /\ UNCHANGED <<tnOpen, closes, running, startup_time, flips>>
                  /\ lastKind' = "login_failed"
                  /\ raised' = "LoginError"
                  /\ phases' = <<"AWAITING_SIGNAL", "LOGGING_IN">>
  /\ pre' = Pre
  /\ calls' = <<>>
  /\ markerSeen' = TRUE
  /\ idleTicks' = -1
  /\ noisy' = FALSE
  /\ lastPrompts' = prompts
  /\ discarded' = NoSession
  /\ unbroken' = (unbroken /\ emptySince = 0)
  /\ UNCHANGED <<spins, start_time, vmUp, password, now, emptySince,
                 noiseReset>>

\* lines 150-159: no match
NoMatchBranch(buf) ==
  /\ ~TimedOut(spins)
  /\ LET e == expect(buf) IN
     /\ ~(e.match /\ e.ridx = 0)
     /\ lastRes' = e.res
     /\ spins' = SpinsAfterNoMatch(spins, e.res)
     /\ idleTicks' = IF idleTicks >= 0 /\ e.res = <<>> THEN idleTicks + 1 ELSE -1
     /\ noisy' = (noisy /\ e.res # <<>>)
     /\ unbroken' = (unbroken \/ e.res # <<>>)
     /\ emptySince' = IF e.res = <<>> THEN emptySince + 1 ELSE 0
     /\ noiseReset' = (noiseReset \/ e.res # <<>>)
  /\ lastKind' = "no_match"
  /\ pre' = Pre
  /\ calls' = <<>>
  /\ tickWrites' = <<>>
  /\ phases' = <<"AWAITING_SIGNAL">>
  /\ lastPrompts' = {}
  /\ raised' = None
  /\ discarded' = NoSession
  /\ UNCHANGED <<running, start_time, tnOpen, vmUp, password, now,
                 startup_time, closes, flips, markerSeen>>

bootstrap_spin ==
  \/ TimeoutBranch
  \/ \E buf \in Reads, prompts \in PromptSets : MatchBranch(buf, prompts)
  \/ \E buf \in Reads : NoMatchBranch(buf)

\* vrnetlab.VM.work: the scheduler's tick, until the session is running
work ==
  /\ ~running
  /\ bootstrap_spin
  /\ UNCHANGED <<stepVars, cfgVars>>

\* the wall clock moves on between ticks
ClockAdvance ==
  /\ now < MaxClock
  /\ now' = now + 1
  /\ UNCHANGED <<spins, running, start_time, tnOpen, vmUp, password,
                 startup_time, lastKind, lastRes, pre, calls, tickWrites,
                 phases, closes, flips, markerSeen, idleTicks, noisy,
                 lastPrompts, raised, discarded, emptySince, unbroken,
                 noiseReset, pc, console, shown>>
  /\ UNCHANGED cfgVars

\* --------------------------------------------------- the config bootstrapper
Placeholder == "{HOSTNAME}"      \* launch.py:65
Hostnames == {"vr-edge1", "r2"}  \* --hostname, launch.py:176
TemplateTokens == {Placeholder, "set"}
Templates == UNION {[1..n -> TemplateTokens] : n \in 1..MaxCfg}
UserTexts == {<<>>, <<"user">>}

File(t) == [exists |-> TRUE, text |-> t]
Missing == [exists |-> FALSE, text |-> <<>>]

\* ways the shell command of line 113 can end
CatOutcomes == {"ok", "second_unreadable", "write_failed"}

\* line 65: cfg.replace("{HOSTNAME}", hostname)
Replace(cfg, host) ==
  [i \in DOMAIN cfg |-> IF cfg[i] = Placeholder THEN host ELSE cfg[i]]

\* cat init.conf STARTUP_CONFIG_FILE: what reaches the output
CatOutput(a, b, cat) ==
  CASE cat = "ok" -> a.text \o b.text
    [] cat = "second_unreadable" -> a.text
    [] OTHER -> <<>>

\* >> juniper.conf: the output is appended, the file created if need be
AppendTo(f, t) == File(f.text \o t)

\* lines 98-117; subprocess.run of line 114 does not look at the exit status
startup_config(fs, cat, mk) ==
  LET fs1 == IF ~fs.user.exists
               THEN [fs EXCEPT !.juniper = fs.init, !.init = Missing]
               ELSE [fs EXCEPT !.juniper =
                       AppendTo(fs.juniper, CatOutput(fs.init, fs.user, cat))]
  IN  IF mk /\ fs1.juniper.exists
        THEN [fs |-> [fs1 EXCEPT !.img = File(fs1.juniper.text)],
              status |-> "ok", built |-> TRUE]
        ELSE [fs |-> fs1, status |-> "CalledProcessError", built |-> FALSE]

\* lines 59-72
Construct(fs, host, cat, mk) ==
  IF ~fs.init.exists
    THEN [fs |-> fs, status |-> "FileNotFoundError", built |-> FALSE]
    ELSE startup_config([fs EXCEPT !.init = File(Replace(fs.init.text, host))],
                        cat, mk)

FS == [init |-> init_conf, juniper |-> juniper_conf, user |-> startup_cfg,
       img |-> config_img]

\* the object's fields after vrnetlab.VM.__init__
InitObject ==
  /\ password \in Passwords
  /\ now = 0
  /\ spins = 0
  /\ running = FALSE
  /\ start_time = 0
  /\ closes = 0
  /\ startup_time = -1
  /\ lastKind = "none"
  /\ lastRes = <<>>
  /\ pre = [spins |-> 0, running |-> FALSE, start_time |-> 0, now |-> 0]
  /\ discarded = NoSession
  /\ calls = <<>>
  /\ tickWrites = <<>>
  /\ phases = <<>>
  /\ flips = 0
  /\ markerSeen = FALSE
  /\ idleTicks = 0
  /\ emptySince = 0
  /\ unbroken = TRUE
  /\ noiseReset = FALSE
  /\ pc = "idle"
  /\ console = <<>>
  /\ shown = {}
  /\ noisy = TRUE
  /\ lastPrompts = {}
  /\ raised = None

\* the files of a container that has not been launched yet
FreshContainer ==
  /\ hostname \in Hostnames
  /\ template \in Templates
  /\ init_conf = File(template)
  /\ juniper_conf = Missing
  /\ startup_cfg \in {Missing} \cup {File(t) : t \in UserTexts}
  /\ config_img = Missing
  /\ status = "none"
  /\ runs = 0
  /\ prevStatus = "none"
  /\ prevArtifact = Missing
  /\ lastCat = "not_run"
  /\ built = FALSE

\* the files after a first launch without user config
ConfigBuilt ==
  LET fs0 == [init |-> File(<<"set", Placeholder>>), juniper |-> Missing,
              user |-> Missing, img |-> Missing]
      r == Construct(fs0, "vr-edge1", "ok", TRUE)
  IN  /\ hostname = "vr-edge1"
      /\ template = fs0.init.text
      /\ init_conf = r.fs.init
      /\ juniper_conf = r.fs.juniper
      /\ startup_cfg = r.fs.user
      /\ config_img = r.fs.img
      /\ status = r.status
      /\ runs = 1
      /\ prevStatus = "none"
      /\ prevArtifact = Missing
      /\ lastCat = "not_run"
      /\ built = r.built

\* the object after construction and the first start()
Init ==
  /\ InitObject
  /\ tnOpen = TRUE
  /\ vmUp = TRUE
  /\ ConfigBuilt

\* __main__ (lines 193-199): build the object, then start the VM; run again
\* on the same files when the container is restarted
Launch(cat, mk) ==
  /\ runs < MaxRuns
  /\ LET r == Construct(FS, hostname, cat, mk) IN
       /\ init_conf' = r.fs.init
       /\ juniper_conf' = r.fs.juniper
       /\ config_img' = r.fs.img
       /\ status' = r.status
       /\ built' = r.built
       /\ vmUp' = (r.status = "ok")
       /\ tnOpen' = (r.status = "ok")
  /\ runs' = runs + 1
  /\ prevStatus' = status
  /\ prevArtifact' = juniper_conf
  /\ lastCat' = IF init_conf.exists /\ startup_cfg.exists THEN cat ELSE "not_run"
  /\ UNCHANGED <<hostname, startup_cfg, template>>
  /\ UNCHANGED <<spins, running, start_time, password, now, startup_time,
                 lastKind, lastRes, pre, calls, tickWrites, phases, closes,
                 flips, markerSeen, idleTicks, noisy, lastPrompts, raised,
                 discarded, emptySince, unbroken, noiseReset, pc, console,
                 shown>>

InitConfig ==
  /\ InitObject
  /\ tnOpen = FALSE
  /\ vmUp = FALSE
  /\ FreshContainer

NextConfig == \E cat \in CatOutcomes, mk \in BOOLEAN : Launch(cat, mk)

SpecConfig == InitConfig /\ [][NextConfig]_vars

Next == work \/ ClockAdvance

Spec == Init /\ [][Next]_vars

\* ------------------------------------------ the tick, statement by statement
\* timeout argument of self.tn.expect, line 129
ExpectTimeout == 1

\* the read waits for the marker for ever
ReadReturns_noTimeout(buf, timeout) == \E i \in DOMAIN buf : buf[i] = Marker

\* line 129: the read returns on a match, or when its timeout expires
ReadReturns(buf, timeout) ==
  (\E i \in DOMAIN buf : buf[i] = Marker) \/ timeout >= 0

\* the console is read before the spin count is looked at
FirstStep_readFirst(s) == "expect"

\* lines 121-129: the timeout check comes before the console read
FirstStep(s) == IF TimedOut(s) THEN "stop" ELSE "expect"

\* lines 135-138: the four calls of wait_write
LoginCalls(pw) ==
  << [cmd |-> CR, wait |-> None],
     [cmd |-> Username, wait |-> LoginPrompt],
     [cmd |-> pw, wait |-> PasswordPrompt],
     [cmd |-> CR, wait |-> None] >>

WritePc == <<"write1", "write2", "write3", "write4">>

\* running is set before the console is closed
CompletionOrder_markFirst == <<"mark", "close">>

\* lines 142-147: close the console, then mark as running
CompletionOrder == <<"close", "mark">>

AfterCompletionStep(p) ==
  IF p = CompletionOrder[1] THEN CompletionOrder[2] ELSE "idle"

histVars == <<phases, flips, markerSeen, idleTicks, noisy, lastPrompts,
              discarded, emptySince, unbroken, noiseReset, cfgVars>>

\* the scheduler calls bootstrap_spin (vrnetlab.VM.work)
Enter(buf, prompts) ==
  /\ pc = "idle"
  /\ ~running
  /\ console' = buf
  /\ shown' = prompts
  /\ pre' = Pre
  /\ lastKind' = "none"
  /\ lastRes' = <<>>
  /\ calls' = <<>>
  /\ tickWrites' = <<>>
  /\ raised' = None
  /\ pc' = FirstStep(spins)
  /\ UNCHANGED <<spins, running, start_time, tnOpen, vmUp, password, now,
                 startup_time, closes>>
  /\ UNCHANGED histVars

\* line 123
DoStop ==
  /\ pc = "stop"
  /\ LET r == stop([Self EXCEPT !.calls = calls]) IN
       /\ running' = r.running
       /\ vmUp' = r.vmUp
       /\ tnOpen' = r.tnOpen
       /\ closes' = r.closes
       /\ calls' = r.calls
  /\ pc' = "start"
  /\ UNCHANGED <<spins, start_time, password, now, startup_time, lastKind,
                 lastRes, pre, tickWrites, raised, console, shown>>
  /\ UNCHANGED histVars

\* lines 124-125
DoStart ==
  /\ pc = "start"
  /\ LET r == start([Self EXCEPT !.calls = calls], now) IN
       /\ spins' = r.spins
       /\ start_time' = r.start_time
       /\ running' = r.running
       /\ vmUp' = r.vmUp
       /\ tnOpen' = r.tnOpen
       /\ closes' = r.closes
       /\ calls' = r.calls
  /\ pc' = "idle"
  /\ lastKind' = "timeout"
  /\ UNCHANGED <<password, now, startup_time, lastRes, pre, tickWrites,
                 raised, console, shown>>
  /\ UNCHANGED histVars

\* lines 129-131
DoExpect ==
  /\ pc = "expect"
  /\ ReadReturns(console, ExpectTimeout)
  /\ LET e == expect(console) IN
       /\ lastRes' = e.res
       /\ pc' = IF e.match /\ e.ridx = 0 THEN WritePc[1] ELSE "count"
  /\ UNCHANGED <<spins, running, start_time, tnOpen, vmUp, password, now,
                 startup_time, lastKind, pre, calls, tickWrites, raised,
                 closes, console, shown>>
  /\ UNCHANGED histVars

\* lines 135-138, one call of wait_write
DoWrite(i) ==
  /\ pc = WritePc[i]
  /\ LET c == LoginCalls(password)[i]
         w == wait_write(tickWrites, c.cmd, c.wait, shown)
     IN  IF w.ok
           THEN /\ tickWrites' = w.out
                /\ pc' = IF i < 4 THEN WritePc[i + 1] ELSE CompletionOrder[1]
                /\ UNCHANGED <<raised, lastKind>>
           ELSE /\ raised' = "LoginError"
                /\ lastKind' = "login_failed"
                /\ pc' = "idle"
                /\ UNCHANGED tickWrites
  /\ UNCHANGED <<spins, running, start_time, tnOpen, vmUp, password, now,
                 startup_time, lastRes, pre, calls, closes, console, shown>>
  /\ UNCHANGED histVars

\* line 142
DoClose ==
  /\ pc = "close"
  /\ tnOpen' = FALSE
  /\ closes' = closes + 1
  /\ pc' = AfterCompletionStep("close")
  /\ lastKind' = IF pc' = "idle" THEN "login_ok" ELSE lastKind
  /\ UNCHANGED <<spins, running, start_time, vmUp, password, now,
                 startup_time, lastRes, pre, calls, tickWrites, raised,
                 console, shown>>
  /\ UNCHANGED histVars

\* lines 144-148
DoMark ==
  /\ pc = "mark"
  /\ startup_time' = now - start_time
  /\ running' = TRUE
  /\ pc' = AfterCompletionStep("mark")
  /\ lastKind' = IF pc' = "idle" THEN "login_ok" ELSE lastKind
  /\ UNCHANGED <<spins, start_time, tnOpen, vmUp, password, now, lastRes,
                 pre, calls, tickWrites, raised, closes, console, shown>>
  /\ UNCHANGED histVars

\* lines 152-159
DoCount ==
  /\ pc = "count"
  /\ spins' = SpinsAfterNoMatch(spins, lastRes)
  /\ pc' = "idle"
  /\ lastKind' = "no_match"
  /\ UNCHANGED <<running, start_time, tnOpen, vmUp, password, now,
                 startup_time, lastRes, pre, calls, tickWrites, raised,
                 closes, console, shown>>
  /\ UNCHANGED histVars

\* a statement of the tick that has been entered
TickStep ==
  \/ DoStop
  \/ DoStart
  \/ DoExpect
  \/ \E i \in 1..4 : DoWrite(i)
  \/ DoClose
  \/ DoMark
  \/ DoCount

NextSteps ==
  \/ \E buf \in Reads, prompts \in PromptSets : Enter(buf, prompts)
  \/ TickStep

\* a tick that was entered keeps executing
SpecSteps == Init /\ [][NextSteps]_vars /\ WF_vars(TickStep)

\* a console that stays silent: every read times out with nothing
SilentTick ==
  /\ ~running
  /\ (TimeoutBranch \/ NoMatchBranch(<<>>))
  /\ UNCHANGED <<stepVars, cfgVars>>

NextSilent == SilentTick \/ ClockAdvance

\* the scheduler keeps calling the tick
SpecSilent == Init /\ [][NextSilent]_vars /\ WF_vars(SilentTick)

TypeOK ==
  /\ spins \in 0..(spinLimit + 1)
  /\ running \in BOOLEAN
  /\ idleTicks \in -1..(spinLimit + 1)

\* ------------------------------------------------------------------ claims
HasMarker(res) == \E i \in DOMAIN res : res[i] = Marker
Ticked == lastKind # "none"
MatchTick == lastKind \in {"login_ok", "login_failed"}

\* C1 (as stated): after a tick without a marker match, spins is 0 if the
\* read returned output, and one more than before if it returned nothing.
C1_AsStated ==
  lastKind = "no_match" =>
    IF lastRes # <<>> THEN spins = 0 ELSE spins = pre.spins + 1

\* C1 (amended): after a tick without a marker match, spins is 1 if the read
\* returned output (reset to 0, then the tick is counted), and one more than
\* before if it returned nothing.
C1_SpinsAfterTick ==
  lastKind = "no_match" =>
    IF lastRes # <<>> THEN spins = 1 ELSE spins = pre.spins + 1

C1_Witness ==
  lastKind = "no_match" /\ lastRes # <<>> /\ pre.spins >= 2 /\ spins = 1

\* C2 (as stated): a tick restarts the VM iff spins exceeded the limit at its
\* start, and never once the marker has been observed in the session.
C2_AsStated ==
  Ticked =>
    /\ (lastKind = "timeout") <=> (pre.spins > spinLimit)
    /\ lastKind = "timeout" => ~discarded.markerSeen

\* C2 (amended): a tick restarts the VM (stop, start) iff spins exceeded the
\* limit at its start; never while spins <= spinLimit, never once the session
\* is running; a marker followed by a failed login does not prevent it.
C2_TimeoutIffOverLimit ==
  Ticked =>
    /\ (lastKind = "timeout") <=> (pre.spins > spinLimit)
    /\ (calls # <<>>) <=> (pre.spins > spinLimit)
    /\ lastKind = "timeout" => ~pre.running

C2_Witness == lastKind = "timeout" /\ discarded.markerSeen

\* C3 (as stated): 300 consecutive empty reads from a fresh session leave the
\* timeout guard true.
C3_AsStated ==
  idleTicks = 300 => spins > spinLimit

\* C3 (amended): from a fresh session the guard holds after 301 consecutive
\* empty reads and not before, and the tick that follows them issues
\* stop + start.
C3_TimeoutAfter301 ==
  /\ idleTicks = spinLimit + 1 => spins > spinLimit
  /\ idleTicks \in 0..spinLimit => spins <= spinLimit
  /\ (lastKind = "timeout" /\ discarded.idleTicks >= 0) =>
        /\ discarded.idleTicks = spinLimit + 1
        /\ calls = <<"stop", "start">>

C3_Witness ==
  lastKind = "timeout" /\ discarded.idleTicks = 301

\* C4: a tick that times out calls stop() then start(), once each, and ends
\* in a fresh session (spins 0, start_time the time of the tick, not running,
\* console open); the tick after it does not time out.
C4_RestartState ==
  lastKind = "timeout" =>
    /\ calls = <<"stop", "start">>
    /\ spins = 0
    /\ start_time = pre.now
    /\ ~running /\ vmUp /\ tnOpen /\ closes = 0
    /\ ~markerSeen /\ idleTicks = 0

C4_NoSecondTimeout ==
  [][(lastKind = "timeout" /\ now' = now) => lastKind' # "timeout"]_vars

C4_Restart == []C4_RestartState /\ C4_NoSecondTimeout

C4_Witness == lastKind = "timeout" /\ start_time > pre.start_time

\* C5: while every console read has returned non-empty output without the
\* marker, no tick has restarted the VM and the guard is not reached.
C5_NoisyNeverTimesOut ==
  noisy =>
    /\ lastKind # "timeout"
    /\ calls = <<>>
    /\ vmUp
    /\ spins <= 1

C5_Witness ==
  noisy /\ lastKind = "no_match" /\ pre.spins = 1 /\ spins = 1

BothPrompts == {LoginPrompt, PasswordPrompt}

\* C6: in a session running goes false -> true at most once, only on a tick
\* where the marker matched and the whole login sequence went through, and
\* it stays true for the rest of the session.
C6_RunningOnce ==
  /\ flips <= 1
  /\ running <=> (flips = 1)
  /\ running =>
        /\ lastKind = "login_ok"
        /\ ~pre.running
        /\ HasMarker(lastRes)
        /\ lastPrompts = BothPrompts
        /\ tickWrites = <<CR, Username, password, CR>>

C6_Witness == running /\ flips = 1 /\ pre.spins > 0

\* C7: a tick that reads the marker and is shown both prompts goes
\* AWAITING_SIGNAL -> LOGGING_IN -> DONE, sets running and closes the
\* console; the session's console is closed once, never twice.
C7_LoginClosesOnce ==
  /\ (MatchTick /\ lastPrompts = BothPrompts) =>
        /\ lastKind = "login_ok"
        /\ phases = <<"AWAITING_SIGNAL", "LOGGING_IN", "DONE">>
        /\ running
        /\ ~tnOpen
        /\ closes = 1
  /\ closes <= 1
  /\ running => closes = 1

C7_Witness == lastKind = "login_ok" /\ pre.spins = 4 /\ closes = 1

\* C8 (as stated): spins decreases only on a tick that read non-empty
\* output, and every decrease sets it to 0.
C8_AsStated ==
  (Ticked /\ spins < pre.spins) => (lastRes # <<>> /\ spins = 0)

\* C8 (amended): spins decreases only on a tick without a marker match that
\* read non-empty output, which sets it to 1, or on a tick that restarts the
\* VM without reading the console, which sets it to 0; an empty read adds
\* one and a marker tick leaves it alone.
C8_SpinsDecrease ==
  Ticked =>
    /\ spins < pre.spins =>
          \/ lastKind = "no_match" /\ lastRes # <<>> /\ spins = 1
          \/ lastKind = "timeout" /\ lastRes = <<>> /\ spins = 0
    /\ (lastKind = "no_match" /\ lastRes = <<>>) => spins = pre.spins + 1
    /\ MatchTick => spins = pre.spins

C8_Witness == lastKind = "no_match" /\ spins < pre.spins /\ pre.spins = 7

\* C9: console writes are made only by a tick whose read matched the
\* marker; ticks without a match, and sessions that have not seen the
\* marker, write nothing.
C9_NoWriteBeforeMarker ==
  /\ tickWrites # <<>> => (HasMarker(lastRes) /\ MatchTick /\ markerSeen)
  /\ lastKind \in {"none", "no_match", "timeout"} => tickWrites = <<>>
  /\ ~markerSeen => tickWrites = <<>>

C9_Witness ==
  tickWrites = <<CR, Username>> /\ lastKind = "login_failed" /\ pre.spins > 0

\* errors that end the process (design document, error taxonomy)
FatalErrors == {"TemplateReadError", "ConfigMergeError", "ConfigDiskBuildError"}

\* C10: a tick that matched the marker and was not shown one of the prompts
\* ends with a LoginError and nothing else: not running, console still
\* open, VM neither stopped nor started, spins as before, the tick loop
\* still enabled.
C10_FailedLoginTick ==
  (MatchTick /\ lastPrompts # BothPrompts) =>
    /\ lastKind = "login_failed"
    /\ raised = "LoginError" /\ raised \notin FatalErrors
    /\ ~running /\ flips = 0
    /\ tnOpen /\ closes = 0
    /\ calls = <<>> /\ vmUp
    /\ spins = pre.spins /\ start_time = pre.start_time

C10_Witness ==
  lastKind = "login_failed" /\ lastPrompts = {LoginPrompt} /\ ~running /\ tnOpen

\* the four writes of a complete login, in order
LoginSequence == <<CR, Username, password, CR>>

\* C15: the writes of a tick are a prefix of CR, username, password, CR; the
\* username is written only if "login:" was shown and the password only if
\* "Password:" was shown; the console is closed and running set only when
\* all four have been written.
C15_LoginOrder ==
  /\ \E k \in 0..4 : tickWrites = SubSeq(LoginSequence, 1, k)
  /\ Len(tickWrites) >= 2 => LoginPrompt \in lastPrompts
  /\ Len(tickWrites) >= 3 => PasswordPrompt \in lastPrompts
  /\ (running \/ ~tnOpen \/ lastKind = "login_ok") => tickWrites = LoginSequence

C15_Witness ==
  lastKind = "login_ok" /\ tickWrites = <<CR, Username, "s3cret", CR>> /\ running

\* C18: spins is between 0 and spinLimit + 1 in every state between ticks.
C18_SpinsRange == spins \in 0..(spinLimit + 1)

C18_Witness == spins = spinLimit + 1 /\ lastKind = "no_match"

\* C16 (as stated): a timeout is preceded, in its session, by a run of more
\* than spinLimit consecutive empty reads.  (A run can be that long only if
\* it is unbroken and holds every empty read counted since the last reset.)
C16_AsStated ==
  lastKind = "timeout" =>
    (discarded.unbroken /\ discarded.emptySince > spinLimit)

\* C16 (amended): spins is the number of empty reads since it was last
\* reset, plus one for the read with output that reset it, if any; marker
\* ticks neither count nor reset.  A timeout therefore follows 301 empty
\* reads, or 300 after a read with output, consecutive or not.
C16_TimeoutBudget ==
  /\ spins = emptySince + (IF noiseReset THEN 1 ELSE 0)
  /\ lastKind = "timeout" =>
        /\ pre.spins = spinLimit + 1
        /\ discarded.emptySince =
             (IF discarded.noiseReset THEN spinLimit ELSE spinLimit + 1)

C16_Witness ==
  lastKind = "timeout" /\ discarded.noiseReset /\ ~discarded.unbroken

\* C17: with a console that stays silent and a scheduler that keeps ticking,
\* the VM is restarted again and again, every discarded session had its 301
\* idle ticks, and the loop stays able to tick.
C17_RestartsForever ==
  /\ []<>(lastKind = "timeout" /\ calls = <<"stop", "start">>)
  /\ []<>(lastKind = "no_match")
  /\ [](lastKind = "timeout" => discarded.idleTicks = spinLimit + 1)
  /\ [](~running /\ vmUp /\ tnOpen)

\* a session that was itself created by a restart is restarted
C17_Witness ==
  lastKind = "timeout" /\ pre.start_time > 0 /\ discarded.idleTicks = 301

\* C11: a tick that was entered comes back to the scheduler, whatever the
\* console holds and whichever prompts it shows.
C11_TickReturns == (pc # "idle") ~> (pc = "idle")

\* a tick on a silent console has returned
C11_Witness ==
  pc = "idle" /\ lastKind = "no_match" /\ console = <<>> /\ pre.spins = 2

\* C19: a tick entered with spins over the limit only stops and starts the
\* VM: it does not read the console and writes nothing, whatever the console
\* holds; a tick that logs in leaves spins as it was.
C19_TimeoutFirst ==
  /\ pre.spins > spinLimit =>
        /\ pc \in {"stop", "start", "idle"}
        /\ lastRes = <<>>
        /\ tickWrites = <<>>
        /\ pc = "idle" => (lastKind = "timeout" /\ calls = <<"stop", "start">>)
  /\ pc \in {"stop", "start"} => pre.spins > spinLimit
  /\ (pc \in {"close", "mark"} \/ lastKind = "login_ok") => spins = pre.spins

C19_Witness ==
  lastKind = "timeout" /\ HasMarker(console) /\ shown = BothPrompts

\* C20: whenever running is true the four login writes were made and the
\* console is closed, also between the statements of the tick.
C20_RunningImpliesClosed ==
  running =>
    /\ ~tnOpen
    /\ closes = 1
    /\ HasMarker(lastRes)
    /\ tickWrites = LoginSequence

C20_Witness == running /\ ~tnOpen /\ pc = "idle" /\ lastKind = "login_ok"

\* the baseline with the hostname put in
Baseline == Replace(template, hostname)

\* C12 (as stated): after a launch that went through, juniper.conf is the
\* baseline with the hostname put in when there is no user config, and that
\* baseline followed by the user config, and nothing else, when there is one.
C12_AsStated ==
  status = "ok" =>
    /\ juniper_conf.exists
    /\ juniper_conf.text =
         (IF startup_cfg.exists THEN Baseline \o startup_cfg.text ELSE Baseline)

\* C13 (as stated): a second launch on the files left by a first one that
\* went through, without user config, goes through and leaves the same
\* juniper.conf.
C13_AsStated ==
  (runs >= 2 /\ prevStatus = "ok" /\ ~startup_cfg.exists) =>
    (status = "ok" /\ juniper_conf = prevArtifact)

\* C14 (as stated): when the user config exists and the cat command fails,
\* the launch ends in an error, no image is built and no VM is started.
C14_AsStated ==
  (startup_cfg.exists /\ lastCat \in {"second_unreadable", "write_failed"}) =>
    (status # "ok" /\ ~built /\ ~vmUp)
====
